---- MODULE Spec2Model ----
(***************************************************************************)
(* Presence session controller of supabase-online-tracker                  *)
(* (src/src/index.js, class OnlineStatusManager) with the backend table it *)
(* writes to.                                                              *)
(*                                                                         *)
(* Everything runs on one event loop.  A step of the model is one          *)
(* synchronous stretch of JavaScript: from a call, a timer callback or the *)
(* resolution of an awaited backend request up to the next await.  A       *)
(* backend request is two steps: the stretch that issues it, and the       *)
(* response, in which the backend applies the request (or rejects it) and  *)
(* the awaiting function resumes.  Requests in flight are answered in any  *)
(* order.  Time is a discrete clock; a round trip to the backend is        *)
(* shorter than one unit of it, and a timer fires at its deadline.         *)
(***************************************************************************)
EXTENDS Integers, Sequences, FiniteSets, TLC

\* ------------------------------------------------------------------ bounds
MaxTime == 4
MaxBeatTime == 13
MaxRetryTime == 15
MaxListTime == 3
MaxLogins == 2
MaxBeatLogins == 1
MaxListLogins == 1
MaxCountTime == 3
MaxFeedTime == 1
MaxFeedLogins == 2
MaxLeaveTime == 1
MaxLeaveLogins == 1
MaxRelayTime == 2
MaxRelayLogins == 3
MaxOverlapTime == 6
MaxOverlapLogins == 1
MaxStatsTime == 3
MaxStatsLogins == 2
MaxTabsTime == 1
MaxTabsLogins == 2
MaxFirstTime == 1
MaxFirstLogins == 2
MaxDestroyTime == 3
MaxDestroyLogins == 2

\* ------------------------------------------------------------------ values
NULL == "null"
Users == {"alice", "bob"}
Usernames == {"alice", "", NULL}
NoTimer == -1
Fired == -2
NoRow == -1
NoTime == -1
None == [user |-> NULL, stamp |-> NoRow]
HeartbeatFailureLimit == 5
Epoch == 1000

VARIABLES
    options,      \* the configuration the constructor stored
    now,          \* Date.now()
    hidden,       \* document.hidden
    manager,      \* the fields of the OnlineStatusManager instance
    listeners,    \* the handler pairs registered on window/document
    table,        \* the backend's presence table: username -> last_activity
    login,        \* the userLogin() call
    logout,       \* the userLogout() calls: of the caller and of the limit timer
    heartbeats,   \* the heartbeat callbacks that have not finished
    list,         \* the getOnlineUsers() call
    obs,          \* what an observer of the calls and callbacks has recorded
    count,        \* the getOnlineUserCount() call
    feed,         \* the change feed's last INSERT event and the callbacks it caused
    tabs,         \* the users with an active session in another tab
    users,        \* the backend's user table: has_logged_in, and what was reported
    first,        \* the markUserLoggedIn() calls of this controller and of another
    stats         \* the login()/logout() calls of init.js and the session history table

vars == <<options, now, hidden, manager, listeners, table, login, logout,
          heartbeats, list, obs, count, feed, tabs, users, first, stats>>

\* ----------------------------------------------------------- pure helpers
RECURSIVE Pow2(_)
Pow2(n) == IF n = 0 THEN 1 ELSE 2 * Pow2(n - 1)

\* JavaScript's !username
NotEmptyOnly(username) == username = ""
Falsy(username) == username = "" \/ username = NULL

\* _retryOperation: the wait after failed attempt number `attempt`
ConstantDelay(attempt) == options.retryDelay
BackoffDelay(attempt) == options.retryDelay * Pow2(attempt)

\* _retryOperation: whether failed attempt number `attempt` is followed by another
RetryBelow(attempt) == attempt < options.maxRetries - 1
RetryAgain(attempt) == attempt < options.maxRetries

\* the backend's upsert on conflict (username) and its deletes
InsertRow(t, username, stamp) ==
    IF t[username] = NoRow THEN [t EXCEPT ![username] = stamp] ELSE t
UpsertRow(t, username, stamp) == [t EXCEPT ![username] = stamp]
DeleteRow(t, username) == [u \in Users |-> IF u = username THEN NoRow ELSE t[u]]
KeepRows(t, usernames) == t
DeleteRows(t, usernames) == [u \in Users |-> IF u \in usernames THEN NoRow ELSE t[u]]
SelectRows(t) == {[username |-> u, last_activity |-> t[u]] : u \in {x \in Users : t[x] # NoRow}}

\* Date.now() at the model's instant t, and a loginTime as a number (null is 0)
DateNow(t) == Epoch + t
ToNumber(loginTime) == IF loginTime = NoTime THEN 0 ELSE DateNow(loginTime)

\* ------------------------------------------------ synchronous methods
\* intervals counts the setInterval timers of the heartbeat that are running:
\* clearInterval ends the one the handle points to, setInterval adds one
stopHeartbeat(m) ==
    [m EXCEPT !.heartbeatTimer = NoTimer,
              !.intervals = IF m.heartbeatTimer # NoTimer THEN @ - 1 ELSE @]

\* a heartbeat started without looking at the identity
startHeartbeatAnyway(m, t) ==
    [stopHeartbeat(m) EXCEPT !.heartbeatTimer = t + options.heartbeatInterval,
                             !.intervals = @ + 1]

\* a heartbeat started without clearing the timer that is running
startHeartbeatNoClear(m, t) ==
    IF m.currentUsername = NULL THEN m
    ELSE [m EXCEPT !.heartbeatTimer = t + options.heartbeatInterval,
                   !.intervals = @ + 1]

startHeartbeat(m, t) ==
    IF m.currentUsername = NULL THEN m
    ELSE [stopHeartbeat(m) EXCEPT !.heartbeatTimer = t + options.heartbeatInterval,
                                  !.intervals = @ + 1]

\* a stop that leaves the watchdog armed
KeepTimers(m) == m

stopTimeLimitMonitor(m) ==
    [m EXCEPT !.timeWarningTimer = NoTimer, !.timeLimitTimer = NoTimer, !.loginTime = NoTime]

\* a watchdog whose warning timer is armed warningTime before the limit
startTimeLimitMonitorBeforeLimit(m, t) ==
    LET cleared == stopTimeLimitMonitor([m EXCEPT !.loginTime = t])
        warned == IF options.warningTime # 0 /\ options.onTimeWarning
                  THEN [cleared EXCEPT !.timeWarningTimer =
                                           t + options.maxOnlineTime - options.warningTime]
                  ELSE cleared
    IN [warned EXCEPT !.timeLimitTimer = t + options.maxOnlineTime]

startTimeLimitMonitor(m, t) ==
    LET cleared == stopTimeLimitMonitor([m EXCEPT !.loginTime = t])
        warned == IF options.warningTime # 0 /\ options.onTimeWarning
                  THEN [cleared EXCEPT !.timeWarningTimer = t + options.warningTime]
                  ELSE cleared
    IN [warned EXCEPT !.timeLimitTimer = t + options.maxOnlineTime]

startRealtimeSubscription(m) ==
    IF m.realtimeChannel THEN m ELSE [m EXCEPT !.realtimeChannel = TRUE]

stopRealtimeSubscription(m) == [m EXCEPT !.realtimeChannel = FALSE]

\* setupOfflineDetection: a new pair of handlers, and _cleanupListeners for that pair
NextListener == Cardinality(listeners) + 1
setupOfflineDetection(m) ==
    IF m.currentUsername = NULL THEN m ELSE [m EXCEPT !.cleanupListeners = NextListener]
RegisteredListeners(m) ==
    IF m.currentUsername = NULL THEN listeners
    ELSE listeners \cup {[id |-> NextListener, username |-> m.currentUsername]}

\* lines 209-215: the channels startRealtimeSubscription opens at the backend
AlwaysSubscribe(m) == 1
SubscribeCalls(m) == IF m.realtimeChannel THEN 0 ELSE 1

\* lines 127-129 and 208-263: the backend's side of the subscription userLogin starts
Subscribed(f, m) ==
    LET opened == IF options.enableRealtime THEN SubscribeCalls(m) ELSE 0
    IN IF opened = 0 THEN f
       ELSE [f EXCEPT !.channels = @ + opened, !.status = "SUBSCRIBED", !.errors = <<>>]

\* lines 268-274: removeChannel, called when a handle is held
Removed(f, m) ==
    IF m.realtimeChannel
    THEN [f EXCEPT !.channels = @ - 1, !.status = "CLOSED", !.errors = <<>>]
    ELSE f

\* what userLogin does once its presence write has succeeded (lines 120-136)
AfterFirstWrite(m, t) ==
    LET beating == startHeartbeat(m, t)
        hooked == setupOfflineDetection(beating)
        subscribed == IF options.enableRealtime THEN startRealtimeSubscription(hooked)
                      ELSE hooked
    IN IF options.maxOnlineTime # 0 THEN startTimeLimitMonitor(subscribed, t)
       ELSE subscribed

\* what userLogout does once removeStatus has returned (lines 284-286)
KeepSession(m) == m
AfterRemove(m) ==
    [stopTimeLimitMonitor(stopHeartbeat(m)) EXCEPT !.currentUsername = NULL]

\* ------------------------------------------------------------ initial state
\* the error raised by the attempt numbered k of a wrapped operation is k
NoError == -1
\* line 69: the error callback is called when one is configured
Reported(error) == IF options.onError THEN <<error>> ELSE <<>>
IdleLogin ==
    [pc |-> "idle", user |-> NULL, attempt |-> 0, stamp |-> 0, wake |-> NoTimer,
     called |-> 0, attempts |-> 0, delays |-> <<>>, elapsed |-> 0,
     reported |-> <<>>, thrown |-> NoError]
IdleLogout == [pc |-> "idle", user |-> NULL, calls |-> 0]
IdleList ==
    [pc |-> "idle", rows |-> {}, active |-> {}, expired |-> {}, readOk |-> FALSE,
     deleted |-> FALSE, deleteOk |-> FALSE, after |-> None, again |-> FALSE,
     prev |-> {}, prevDeleted |-> FALSE]

NoEvent == [username |-> NULL, last_activity |-> NoRow]
NoDelete == [username |-> NULL, own |-> FALSE]
QuietFeed ==
    [event |-> NoEvent, local |-> NULL, joins |-> <<>>,
     deletes |-> {}, old |-> NoDelete, oldLocal |-> NULL, leaves |-> <<>>,
     channels |-> 0, status |-> "CLOSED", errors |-> <<>>]
IdleStats ==
    [open |-> [u \in Users |-> 0], login |-> "idle", loginUser |-> NULL,
     logout |-> "idle", logoutUser |-> NULL]
IdleFirst == [pc |-> "idle", user |-> NULL, isFirstLogin |-> FALSE]
NewUser == [has_logged_in |-> FALSE, firsts |-> 0, failed |-> FALSE]
IdleCount == [pc |-> "idle", cutoff |-> 0, fresh |-> 0, readOk |-> FALSE, result |-> 0]

\* the fields the constructor sets (lines 40-46)
Constructed ==
    [heartbeatTimer |-> NoTimer, currentUsername |-> NULL, retryCount |-> 0,
     realtimeChannel |-> FALSE, loginTime |-> NoTime, timeLimitTimer |-> NoTimer,
     timeWarningTimer |-> NoTimer, cleanupListeners |-> 0, intervals |-> 0]

Observed ==
    [hbWrites |-> 0, hbStart |-> 0, steady |-> FALSE, fatal |-> FALSE,
     hbStopErrors |-> 0, timeLeft |-> 0, afterStart |-> None, afterList |-> FALSE,
     stopped |-> NULL, limits |-> 0, started |-> NoTime, destroyed |-> FALSE]

\* another step has come between two calls
Disturb(o) == [o EXCEPT !.afterStart = None, !.afterList = FALSE]

\* the timed session is over once the limit timer is cleared
Timing(o, m) == [o EXCEPT !.started = IF m.timeLimitTimer = NoTimer THEN NoTime ELSE @]

\* the heartbeat has been paused, stopped or has failed since the session started
Unsteady(o) == [Disturb(o) EXCEPT !.steady = FALSE, !.hbWrites = 0, !.hbStart = 0]

BaseOptions ==
    [heartbeatInterval |-> 2, inactiveTimeout |-> 3, maxRetries |-> 1, retryDelay |-> 1,
     enableRealtime |-> TRUE, enableFirstLoginTracking |-> FALSE,
     maxOnlineTime |-> 0, warningTime |-> 0, onTimeWarning |-> TRUE,
     onUserJoin |-> TRUE, onUserLeave |-> FALSE, onError |-> TRUE]

InitWith(opts) ==
    /\ options \in opts
    /\ now = 0
    /\ hidden = FALSE
    /\ manager = Constructed
    /\ listeners = {}
    /\ table = [u \in Users |-> NoRow]
    /\ login = IdleLogin
    /\ logout = [who \in {"caller", "limit"} |-> IdleLogout]
    /\ heartbeats = {}
    /\ list = IdleList
    /\ obs = Observed
    /\ stats = IdleStats
    /\ first = [who \in {"self", "other"} |-> IdleFirst]
    /\ users = [u \in Users |-> NewUser]
    /\ tabs = {}
    /\ feed = QuietFeed
    /\ count = IdleCount

\* a session with and without a duration limit
Init ==
    InitWith({BaseOptions,
              [BaseOptions EXCEPT !.maxOnlineTime = 3, !.warningTime = 2]})

\* the retry wrapper under several settings of maxRetries and retryDelay
InitRetry ==
    InitWith({[BaseOptions EXCEPT !.maxRetries = n, !.retryDelay = d, !.heartbeatInterval = 30] :
                 n \in 1..3, d \in 1..2})

\* the presence directory during the first heartbeat interval of a session
InitList == InitWith({[BaseOptions EXCEPT !.heartbeatInterval = 30, !.inactiveTimeout = 2]})

\* the change feed with the leave callback configured
InitLeave ==
    InitWith({[BaseOptions EXCEPT !.heartbeatInterval = 30, !.inactiveTimeout = 2,
                                  !.onUserLeave = TRUE]})

\* heartbeat writes whose retries outlast the heartbeat interval
InitOverlap ==
    InitWith({[BaseOptions EXCEPT !.maxRetries = 1, !.retryDelay = 2],
              [BaseOptions EXCEPT !.maxRetries = 2, !.retryDelay = 1]})

\* sessions with a duration limit, recorded in the session history
InitStats ==
    InitWith({[BaseOptions EXCEPT !.heartbeatInterval = 30, !.maxOnlineTime = 2,
                                  !.warningTime = 1]})

\* first-login tracking switched on and off
InitFirst ==
    InitWith({[BaseOptions EXCEPT !.enableFirstLoginTracking = on,
                                  !.heartbeatInterval = 30] : on \in BOOLEAN})

\* a long session, without a duration limit and with one that lies far ahead
InitBeat ==
    InitWith({BaseOptions,
              [BaseOptions EXCEPT !.maxOnlineTime = 30, !.warningTime = 20]})

\* ------------------------------------------------------------- userLogin
\* lines 93-118: the check of the name, then the first presence write is issued
UserLoginCall(username, limit) ==
    /\ login.pc \notin {"first", "upsert", "sleep"}
    /\ Cardinality(listeners) < limit
    /\ IF Falsy(username)
       THEN /\ login' = [IdleLogin EXCEPT !.pc = "InvalidInput"]
            /\ obs' = Disturb(obs)
            /\ UNCHANGED <<manager, first>>
       ELSE /\ manager' = [manager EXCEPT !.currentUsername = username]
            /\ login' = [IdleLogin EXCEPT
                             !.pc = IF options.enableFirstLoginTracking THEN "first"
                                    ELSE "upsert",
                             !.user = username,
                             !.stamp = now, !.called = now, !.attempts = 1]
            /\ first' = IF options.enableFirstLoginTracking
                        THEN [first EXCEPT !["self"] = [IdleFirst EXCEPT !.pc = "query",
                                                                        !.user = username]]
                        ELSE first
            /\ obs' = [Unsteady(obs) EXCEPT !.fatal = FALSE, !.hbStopErrors = 0,
                          !.destroyed = FALSE,
                          !.stopped = IF @ = username THEN NULL ELSE @]
    /\ UNCHANGED <<options, users, tabs, feed, count, now, hidden, listeners, table,
                   logout, heartbeats, list>>

\* userLogin called directly
userLogin(username, limit) ==
    /\ UserLoginCall(username, limit)
    /\ UNCHANGED stats

\* lines 101-112: markUserLoggedIn has returned; the first presence write is issued
AbortLogin(who, l) ==
    IF who = "self" THEN [l EXCEPT !.pc = "BackendUnavailable"] ELSE l

AfterFirstLogin(who, l) ==
    IF who = "self" THEN [l EXCEPT !.pc = "upsert", !.stamp = now] ELSE l

\* lines 564-575 and 590-593: the read of has_logged_in is answered
firstQueryResponse(who, ok) ==
    /\ first[who].pc = "query"
    /\ LET u == first[who].user
           isFirstLogin == ok /\ ~users[u].has_logged_in
       IN /\ first' = [first EXCEPT ![who].pc = IF isFirstLogin THEN "update" ELSE "done",
                                    ![who].isFirstLogin = isFirstLogin]
          /\ users' = [users EXCEPT ![u].failed = @ \/ ~ok]
          /\ login' = IF isFirstLogin THEN login ELSE AfterFirstLogin(who, login)
    /\ UNCHANGED <<options, stats, tabs, feed, count, now, hidden, manager, listeners, table,
                   logout, heartbeats, list, obs>>

\* lines 578-589: the update of has_logged_in is answered; its error is only logged
firstUpdateResponse(who, ok) ==
    /\ first[who].pc = "update"
    /\ LET u == first[who].user
       IN users' = [users EXCEPT ![u].has_logged_in = @ \/ ok,
                                 ![u].firsts = @ + 1,
                                 ![u].failed = @ \/ ~ok]
    /\ first' = [first EXCEPT ![who].pc = "done"]
    /\ login' = AfterFirstLogin(who, login)
    /\ UNCHANGED <<options, stats, tabs, feed, count, now, hidden, manager, listeners, table,
                   logout, heartbeats, list, obs>>

\* lines 101-107: userLogin(u) of a controller in another tab calls markUserLoggedIn
otherFirstLogin(u) ==
    /\ first["other"].pc \in {"idle", "done"}
    /\ users[u].firsts < MaxFirstLogins
    /\ first' = [first EXCEPT !["other"] = [IdleFirst EXCEPT !.pc = "query", !.user = u]]
    /\ UNCHANGED <<options, stats, users, tabs, feed, count, now, hidden, manager, listeners,
                   table, login, logout, heartbeats, list, obs>>

\* lines 55-78 and 115-136: the first presence write is answered
loginResponse(ok) ==
    /\ login.pc = "upsert"
    /\ ok => login.user \in Users
    /\ IF ok
       THEN /\ table' = UpsertRow(table, login.user, login.stamp)
            /\ manager' = AfterFirstWrite(manager, now)
            /\ feed' = Subscribed(feed, manager)
            /\ listeners' = RegisteredListeners(manager)
            /\ login' = [IdleLogin EXCEPT !.pc = "ok", !.attempts = login.attempts,
                                          !.delays = login.delays,
                                          !.elapsed = now - login.called]
            /\ obs' = [(IF manager.currentUsername = login.user /\ heartbeats = {}
                        THEN [obs EXCEPT !.hbWrites = 0, !.hbStart = now, !.steady = TRUE]
                        ELSE Unsteady(obs))
                          EXCEPT !.afterStart = [user |-> login.user, stamp |-> login.stamp],
                                 !.afterList = FALSE,
                                 !.limits = 0,
                                 !.started = IF options.maxOnlineTime # 0 THEN now
                                             ELSE NoTime]
       ELSE /\ IF RetryAgain(login.attempt)
               THEN login' = [login EXCEPT !.pc = "sleep",
                                 !.stamp = 0,
                                 !.wake = now + BackoffDelay(login.attempt),
                                 !.delays = Append(@, BackoffDelay(login.attempt))]
               ELSE login' = [IdleLogin EXCEPT !.pc = "BackendUnavailable",
                                               !.attempts = login.attempts,
                                               !.delays = login.delays,
                                               !.elapsed = now - login.called,
                                               !.reported = Reported(login.attempt),
                                               !.thrown = login.attempt]
            /\ obs' = Disturb(obs)
            /\ UNCHANGED <<manager, listeners, table, feed>>
    /\ UNCHANGED <<options, stats, first, users, tabs, count, now, hidden, logout,
                   heartbeats, list>>

\* lines 58-67: the backoff wait is over, the next attempt is issued
loginRetry ==
    /\ login.pc = "sleep"
    /\ login.wake = now
    /\ login' = [login EXCEPT !.pc = "upsert", !.attempt = @ + 1, !.stamp = now,
                              !.wake = NoTimer, !.attempts = @ + 1]
    /\ obs' = Disturb(obs)
    /\ UNCHANGED <<options, stats, first, users, tabs, feed, count, now, hidden, manager,
                   listeners, table, logout, heartbeats, list>>

\* ------------------------------------------------------------- heartbeat
\* setInterval: the timer is armed again one interval after it fires
OneShot(t) == NoTimer
Rearm(t) == t + options.heartbeatInterval

\* line 465: the callback writes when there is an identity, whatever earlier
\* callbacks (hs) are still awaiting
SingleFlight(m, hs) == m.currentUsername # NULL /\ hs = {}
TickWrites(m, hs) == m.currentUsername # NULL

\* lines 464-470: the interval callback starts and issues its presence write
heartbeatTick ==
    /\ manager.heartbeatTimer = now
    /\ manager' = [manager EXCEPT !.heartbeatTimer = Rearm(now)]
    /\ IF TickWrites(manager, heartbeats)
       THEN /\ heartbeats' = heartbeats \cup
                   {[pc |-> "upsert", user |-> manager.currentUsername, attempt |-> 0,
                     stamp |-> now, wake |-> NoTimer]}
            /\ obs' = IF obs.steady THEN [Disturb(obs) EXCEPT !.hbWrites = @ + 1]
                      ELSE Disturb(obs)
       ELSE /\ obs' = Disturb(obs)
            /\ UNCHANGED heartbeats
    /\ UNCHANGED <<options, stats, first, users, tabs, feed, count, now, hidden, listeners, table,
                   login, logout, list>>

\* a fatal stop that would end the session
FailedEndsSession(m) ==
    LET counted == [m EXCEPT !.retryCount = @ + 1]
    IN IF counted.retryCount >= HeartbeatFailureLimit THEN AfterRemove(counted)
       ELSE counted

\* lines 472-484: the callback's catch, after _retryOperation has given up
HeartbeatFailed(m) ==
    LET counted == [m EXCEPT !.retryCount = @ + 1]
    IN IF counted.retryCount >= HeartbeatFailureLimit THEN stopHeartbeat(counted)
       ELSE counted

\* a write dropped by the backend once the controller has no identity
CancelledAfterStop(t, m, f) ==
    IF m.currentUsername = NULL THEN t ELSE UpsertRow(t, f.user, f.stamp)

\* lines 296-303: the backend applies the upsert of a heartbeat, whatever the
\* controller's state (m) has become since the write was issued
HeartbeatApplied(t, m, f) == UpsertRow(t, f.user, f.stamp)

\* lines 55-78 and 467-484: the presence write of a heartbeat is answered
heartbeatResponse(f, ok) ==
    /\ f \in heartbeats
    /\ f.pc = "upsert"
    /\ ok => f.user \in Users
    /\ IF ok
       THEN /\ table' = HeartbeatApplied(table, manager, f)
            /\ manager' = [manager EXCEPT !.retryCount = 0]
            /\ heartbeats' = heartbeats \ {f}
            /\ obs' = Disturb(obs)
       ELSE IF RetryAgain(f.attempt)
       THEN /\ heartbeats' = (heartbeats \ {f}) \cup
                   {[f EXCEPT !.pc = "sleep", !.wake = now + BackoffDelay(f.attempt)]}
            /\ obs' = Unsteady(obs)
            /\ UNCHANGED <<manager, table>>
       ELSE /\ manager' = HeartbeatFailed(manager)
            /\ heartbeats' = heartbeats \ {f}
            /\ obs' = [Unsteady(obs) EXCEPT
                          !.fatal = @ \/ manager'.retryCount >= HeartbeatFailureLimit,
                          !.hbStopErrors =
                              IF manager'.retryCount >= HeartbeatFailureLimit THEN @ + 1 ELSE @]
            /\ UNCHANGED table
    /\ UNCHANGED <<options, stats, first, users, tabs, feed, count, now, hidden, listeners, login,
                   logout, list>>

\* lines 58-67 and 468: the backoff wait is over; the next attempt reads
\* this.currentUsername again
heartbeatRetry(f) ==
    /\ f \in heartbeats
    /\ f.pc = "sleep"
    /\ f.wake = now
    /\ heartbeats' = (heartbeats \ {f}) \cup
           {[f EXCEPT !.pc = "upsert", !.attempt = @ + 1, !.user = manager.currentUsername,
                      !.stamp = now, !.wake = NoTimer]}
    /\ obs' = Unsteady(obs)
    /\ UNCHANGED <<options, stats, first, users, tabs, feed, count, now, hidden, manager,
                   listeners, table, login, logout, list>>

\* ------------------------------------------------------------ userLogout
\* line 280: if (this.currentUsername)
AlwaysRemove(m) == TRUE
HasUsername(m) == m.currentUsername # NULL

\* lines 279-287, up to the await of removeStatus; all of it when there is no identity
\* the backend queues a DELETE event for the subscribed channel when rows are
\* deleted; own tells the deletes of this controller's userLogout from the rest.
\* Events nobody listens to (no channel, or no onUserLeave) are left out.
DeleteEvents(f, m, usernames, own) ==
    IF m.realtimeChannel /\ options.onUserLeave
    THEN [f EXCEPT !.deletes = @ \cup {[username |-> u, own |-> own] : u \in usernames}]
    ELSE f

LogoutCall(who) ==
    /\ logout[who].pc # "delete"
    /\ IF HasUsername(manager)
       THEN /\ logout' = [logout EXCEPT ![who] =
                             [pc |-> "delete", user |-> manager.currentUsername, calls |-> 1]]
            /\ UNCHANGED manager
       ELSE /\ logout' = [logout EXCEPT ![who] = [pc |-> "ok", user |-> NULL, calls |-> 0]]
            /\ manager' = AfterRemove(manager)

userLogout ==
    /\ LogoutCall("caller")
    /\ obs' = Timing(Unsteady(obs), manager')
    /\ UNCHANGED <<options, stats, first, users, tabs, feed, count, now, hidden, listeners, table,
                   login, heartbeats, list>>

\* lines 281-286 and 317-329: the delete is answered; removeStatus throws on an error
logoutResponse(who, ok) ==
    /\ logout[who].pc = "delete"
    /\ IF ok
       THEN /\ table' = DeleteRow(table, logout[who].user)
            /\ feed' = DeleteEvents(feed, manager,
                                    {u \in {logout[who].user} : table[u] # NoRow}, TRUE)
            /\ manager' = AfterRemove(manager)
            /\ logout' = [logout EXCEPT ![who].pc = "ok", ![who].user = NULL]
            /\ obs' = [Unsteady(obs) EXCEPT
                          !.started = NoTime,
                          !.stopped = IF login.pc \in {"upsert", "sleep"} THEN NULL
                                      ELSE logout[who].user]
       ELSE /\ logout' = [logout EXCEPT ![who].pc = "threw", ![who].user = NULL]
            /\ obs' = Unsteady(obs)
            /\ UNCHANGED <<manager, table, feed>>
    /\ UNCHANGED <<options, stats, first, users, tabs, count, now, hidden, listeners, login,
                   heartbeats, list>>

\* ----------------------------------------------------- duration watchdog
\* lines 150-155: the warning timer fires; loginTime is null when it was cleared
timeWarning ==
    /\ manager.timeWarningTimer = now
    /\ manager' = [manager EXCEPT !.timeWarningTimer = Fired]
    /\ obs' = [Disturb(obs) EXCEPT !.timeLeft =
                  options.maxOnlineTime - (DateNow(now) - ToNumber(manager.loginTime))]
    /\ UNCHANGED <<options, stats, first, users, tabs, feed, count, now, hidden, listeners, table,
                   login, logout, heartbeats, list>>

\* lines 159-168: the limit timer fires, calls onTimeLimit and then userLogout
timeLimit ==
    /\ manager.timeLimitTimer = now
    /\ LET fired == [manager EXCEPT !.timeLimitTimer = Fired]
       IN IF HasUsername(fired)
          THEN /\ logout' = [logout EXCEPT !["limit"] =
                                [pc |-> "delete", user |-> fired.currentUsername, calls |-> 1]]
               /\ manager' = fired
          ELSE /\ logout' = [logout EXCEPT !["limit"] = [pc |-> "ok", user |-> NULL, calls |-> 0]]
               /\ manager' = AfterRemove(fired)
    /\ obs' = [Timing(Unsteady(obs), manager') EXCEPT !.limits = @ + 1]
    /\ UNCHANGED <<options, stats, first, users, tabs, feed, count, now, hidden, listeners, table,
                   login, heartbeats, list>>

\* lines 191-194 and 199-203; a null result is NoTime
NoLoginTime(m) == m.loginTime = NoTime
getCurrentOnlineTime(m, t) ==
    IF NoLoginTime(m) THEN 0 ELSE DateNow(t) - ToNumber(m.loginTime)
getRemainingTime(m, t) ==
    IF options.maxOnlineTime = 0 \/ NoLoginTime(m) THEN NoTime
    ELSE LET left == options.maxOnlineTime - (DateNow(t) - ToNumber(m.loginTime))
         IN IF left > 0 THEN left ELSE 0

\* ------------------------------------------------------------ visibility
\* lines 539-547: every registered visibilitychange handler runs
visibilityChange ==
    /\ hidden' = ~hidden
    /\ manager' = IF listeners = {} THEN manager
                  ELSE IF hidden' THEN stopHeartbeat(manager)
                  ELSE startHeartbeat(manager, now)
    /\ obs' = Unsteady(obs)
    /\ UNCHANGED <<options, stats, first, users, tabs, feed, count, now, listeners, table, login,
                   logout, heartbeats, list>>

\* --------------------------------------------------------------- destroy
\* lines 550-553: _cleanupListeners removes the pair of the latest setupOfflineDetection
CleanedListeners(m) == {l \in listeners : l.id # m.cleanupListeners}

\* lines 599-606
destroy ==
    /\ ~obs.destroyed
    /\ manager' = stopTimeLimitMonitor(stopRealtimeSubscription(stopHeartbeat(manager)))
    /\ listeners' = CleanedListeners(manager)
    /\ feed' = Removed(feed, manager)
    /\ obs' = [Timing(Unsteady(obs), manager') EXCEPT
                  !.destroyed = login.pc \notin {"first", "upsert", "sleep"}]
    /\ UNCHANGED <<options, stats, first, users, tabs, count, now, hidden, table, login,
                   logout, heartbeats, list>>

\* -------------------------------------------------------- getOnlineUsers
\* line 385: timeDiff < this.inactiveTimeout
ActiveAtTimeout(timeDiff) == timeDiff <= options.inactiveTimeout
IsActive(timeDiff) == timeDiff < options.inactiveTimeout

\* lines 381-400: the rows read, split into the users returned and the names to delete
ActiveUsers(rows, t) ==
    {[username |-> r.username, lastActivity |-> r.last_activity] :
        r \in {x \in rows : IsActive(t - x.last_activity)}}
ExpiredUsers(rows, t) ==
    {r.username : r \in {x \in rows : ~IsActive(t - x.last_activity)}}

\* lines 336-372: getOnlineUsers() with no options issues its read
getOnlineUsers ==
    /\ list.pc \notin {"read", "delete"}
    /\ list' = [IdleList EXCEPT
                   !.pc = "read",
                   !.after = obs.afterStart,
                   !.prev = list.active,
                   !.prevDeleted = list.deleted,
                   !.again = /\ obs.afterList
                             /\ list.readOk
                             /\ list.deleted => list.deleteOk]
    /\ UNCHANGED <<options, stats, first, users, tabs, feed, count, now, hidden, manager,
                   listeners, table, login, logout, heartbeats, obs>>

\* lines 372-414: the read is answered; a failed read returns []
listRead(ok) ==
    /\ list.pc = "read"
    /\ IF ok
       THEN LET rows == SelectRows(table)
            IN list' = [list EXCEPT
                           !.pc = IF ExpiredUsers(rows, now) = {} THEN "returned" ELSE "delete",
                           !.rows = rows,
                           !.readOk = TRUE,
                           !.again = @ /\ obs.afterList,
                           !.active = ActiveUsers(rows, now),
                           !.expired = ExpiredUsers(rows, now)]
       ELSE list' = [list EXCEPT !.pc = "returned"]
    /\ obs' = [obs EXCEPT !.afterList = ok]
    /\ UNCHANGED <<options, stats, first, users, tabs, feed, count, now, hidden, manager,
                   listeners, table, login, logout, heartbeats>>

\* lines 403-410: the batch delete is answered; its error is not looked at
listDelete(ok) ==
    /\ list.pc = "delete"
    /\ table' = IF ok THEN DeleteRows(table, list.expired) ELSE table
    /\ list' = [list EXCEPT !.pc = "returned", !.deleted = TRUE, !.deleteOk = ok]
    /\ feed' = IF ok
               THEN DeleteEvents(feed, manager,
                                 {u \in list.expired : table[u] # NoRow}, FALSE)
               ELSE feed
    /\ obs' = [obs EXCEPT !.afterStart = None]
    /\ UNCHANGED <<options, stats, first, users, tabs, count, now, hidden, manager,
                   listeners, login, logout, heartbeats>>

\* ---------------------------------------------------- getOnlineUserCount
\* lines 446-450: the count the call returns; an error of the read gives 0
CountAnyway(ok, n) == n
CountResult(ok, n) == IF ok THEN n ELSE 0

\* line 442: gte('last_activity', cutoffTime)
FreshCount(t, cutoff) == Cardinality({u \in Users : t[u] # NoRow /\ t[u] >= cutoff})

\* lines 422-444: getOnlineUserCount() with no options issues its counting read
getOnlineUserCount ==
    /\ count.pc # "read"
    /\ count' = [IdleCount EXCEPT !.pc = "read", !.cutoff = now - options.inactiveTimeout]
    /\ UNCHANGED <<options, stats, first, users, tabs, feed, now, hidden, manager, listeners,
                   table, login, logout, heartbeats, list, obs>>

\* lines 444-451: the counting read is answered
countResponse(ok) ==
    /\ count.pc = "read"
    /\ count' = [count EXCEPT
                    !.pc = "returned",
                    !.readOk = ok,
                    !.fresh = FreshCount(table, count.cutoff),
                    !.result = CountResult(ok, FreshCount(table, count.cutoff))]
    /\ UNCHANGED <<options, stats, first, users, tabs, feed, now, hidden, manager, listeners,
                   table, login, logout, heartbeats, list, obs>>

\* ------------------------------------------------------------ change feed
\* line 224: payload.new.username !== this.currentUsername
AnyName(m, username) == TRUE
IsRemote(m, username) == username # m.currentUsername

\* lines 223-230: the calls of onUserJoin the INSERT handler makes for a payload
JoinCallbacks(m, payload) ==
    IF options.onUserJoin /\ IsRemote(m, payload.username)
    THEN <<[username |-> payload.username, lastActivity |-> payload.last_activity]>>
    ELSE <<>>

\* lines 216-231: the subscribed channel delivers the INSERT of a row
insertEvent(u) ==
    /\ manager.realtimeChannel
    /\ table[u] # NoRow
    /\ LET payload == [username |-> u, last_activity |-> table[u]]
       IN /\ feed.event # payload \/ feed.local # manager.currentUsername
          /\ feed' = [feed EXCEPT !.event = payload,
                                   !.local = manager.currentUsername,
                                   !.joins = JoinCallbacks(manager, payload)]
    /\ UNCHANGED <<options, stats, first, users, tabs, count, now, hidden, manager, listeners,
                   table, login, logout, heartbeats, list, obs>>

\* lines 239-245: the calls of onUserLeave the DELETE handler makes for a payload
LeaveCallbacks(m, old) ==
    IF options.onUserLeave /\ old.username # m.currentUsername
    THEN <<[username |-> old.username]>>
    ELSE <<>>

\* lines 232-246: the subscribed channel delivers the DELETE of a row
deleteEvent(e) ==
    /\ manager.realtimeChannel
    /\ e \in feed.deletes
    /\ feed' = [feed EXCEPT !.deletes = @ \ {e},
                             !.old = e,
                             !.oldLocal = manager.currentUsername,
                             !.leaves = LeaveCallbacks(manager, e)]
    /\ UNCHANGED <<options, stats, first, users, tabs, count, now, hidden, manager, listeners,
                   table, login, logout, heartbeats, list, obs>>

\* lines 247-256: the channel reports CHANNEL_ERROR to the subscribe callback
channelError ==
    /\ manager.realtimeChannel
    /\ feed.status = "SUBSCRIBED"
    /\ feed' = [feed EXCEPT !.status = "CHANNEL_ERROR",
                             !.errors = IF options.onError THEN Append(@, "realtime")
                                        ELSE @]
    /\ UNCHANGED <<options, stats, first, users, tabs, count, now, hidden, manager, listeners,
                   table, login, logout, heartbeats, list, obs>>

\* ------------------------------------------------- init.js and stats.js
\* init.js lines 51-52: login(username) calls userLogin and awaits it
convenienceLogin(username, limit) ==
    /\ stats.login \notin {"userLogin", "insert"}
    /\ UserLoginCall(username, limit)
    /\ stats' = [stats EXCEPT !.login = "userLogin", !.loginUser = username]

\* init.js lines 52-57: userLogin has thrown and login() with it, or it has
\* returned and recordLogin sends its insert (stats.js lines 65-74)
recordLogin ==
    /\ stats.login = "userLogin"
    /\ login.pc \in {"ok", "InvalidInput", "BackendUnavailable"}
    /\ stats' = [stats EXCEPT !.login = IF login.pc = "ok" THEN "insert" ELSE "threw"]
    /\ UNCHANGED <<options, first, users, tabs, feed, count, now, hidden, manager,
                   listeners, table, login, logout, heartbeats, list, obs>>

\* stats.js lines 76-81 and init.js line 59: the insert is answered; an error
\* is thrown on to the caller of login()
recordLoginResponse(ok) ==
    /\ stats.login = "insert"
    /\ stats' = IF ok
                THEN [stats EXCEPT !.login = "ok", !.open[stats.loginUser] = @ + 1]
                ELSE [stats EXCEPT !.login = "threw"]
    /\ UNCHANGED <<options, first, users, tabs, feed, count, now, hidden, manager,
                   listeners, table, login, logout, heartbeats, list, obs>>

\* init.js line 72: logout() goes on to userLogout
LogoutAfterRecord ==
    /\ LogoutCall("caller")
    /\ obs' = Timing(Unsteady(obs), manager')

\* init.js lines 66-72: logout() calls recordLogout when there is an identity
\* (stats.js lines 91-97: the query for the latest open record is sent)
convenienceLogout ==
    /\ stats.logout \notin {"query", "update"}
    /\ logout["caller"].pc # "delete"
    /\ IF manager.currentUsername # NULL
       THEN /\ stats' = [stats EXCEPT !.logout = "query",
                                      !.logoutUser = manager.currentUsername]
            /\ UNCHANGED <<manager, logout, obs>>
       ELSE /\ stats' = [stats EXCEPT !.logout = "userLogout", !.logoutUser = NULL]
            /\ LogoutAfterRecord
    /\ UNCHANGED <<options, first, users, tabs, feed, count, now, hidden, listeners,
                   table, login, heartbeats, list>>

\* stats.js lines 99-116: the query is answered; without an open record
\* recordLogout returns null, with one it sends the update of that record
recordLogoutQuery(ok) ==
    /\ stats.logout = "query"
    /\ IF ~ok
       THEN /\ stats' = [stats EXCEPT !.logout = "threw"]
            /\ UNCHANGED <<manager, logout, obs>>
       ELSE IF stats.open[stats.logoutUser] = 0
       THEN /\ stats' = [stats EXCEPT !.logout = "userLogout"]
            /\ LogoutAfterRecord
       ELSE /\ stats' = [stats EXCEPT !.logout = "update"]
            /\ UNCHANGED <<manager, logout, obs>>
    /\ UNCHANGED <<options, first, users, tabs, feed, count, now, hidden, listeners,
                   table, login, heartbeats, list>>

\* stats.js lines 118-123 and init.js line 72: the update is answered
recordLogoutUpdate(ok) ==
    /\ stats.logout = "update"
    /\ IF ok
       THEN /\ stats' = [stats EXCEPT !.logout = "userLogout",
                                      !.open[stats.logoutUser] = @ - 1]
            /\ LogoutAfterRecord
       ELSE /\ stats' = [stats EXCEPT !.logout = "threw"]
            /\ UNCHANGED <<manager, logout, obs>>
    /\ UNCHANGED <<options, first, users, tabs, feed, count, now, hidden, listeners,
                   table, login, heartbeats, list>>

\* ----------------------------------------------------------- environment
\* another client of the same table deletes the presence row of a user
otherClientDelete(u) ==
    /\ table[u] # NoRow
    /\ table' = DeleteRow(table, u)
    /\ feed' = DeleteEvents(feed, manager, {u}, FALSE)
    /\ obs' = Disturb(obs)
    /\ UNCHANGED <<options, stats, first, users, tabs, count, now, hidden, manager,
                   listeners, login, logout, heartbeats, list>>

\* another client of the same table writes the presence row of a user
otherClientWrite(u) ==
    /\ table[u] # now
    /\ table' = UpsertRow(table, u, now)
    /\ obs' = [Disturb(obs) EXCEPT !.stopped = IF @ = u THEN NULL ELSE @]
    /\ UNCHANGED <<options, stats, first, users, tabs, feed, count, now, hidden, manager,
                   listeners, login, logout, heartbeats, list>>

\* userLogin(u) of a controller in another tab has completed (lines 115-121)
otherTabLogin(u) ==
    /\ u \notin tabs
    /\ tabs' = tabs \cup {u}
    /\ table' = UpsertRow(table, u, now)
    /\ obs' = [Disturb(obs) EXCEPT !.stopped = IF @ = u THEN NULL ELSE @]
    /\ UNCHANGED <<options, stats, first, users, count, feed, now, hidden, manager, listeners,
                   login, logout, heartbeats, list>>

\* the heartbeat of a controller in another tab has written (lines 464-470)
otherTabHeartbeat(u) ==
    /\ u \in tabs
    /\ table[u] # now
    /\ table' = UpsertRow(table, u, now)
    /\ obs' = [Disturb(obs) EXCEPT !.stopped = IF @ = u THEN NULL ELSE @]
    /\ UNCHANGED <<options, stats, first, users, count, feed, tabs, now, hidden, manager,
                   listeners, login, logout, heartbeats, list>>

\* userLogout() of a controller in another tab has completed (lines 279-287)
otherTabLogout(u) ==
    /\ u \in tabs
    /\ tabs' = tabs \ {u}
    /\ table' = DeleteRow(table, u)
    /\ feed' = DeleteEvents(feed, manager, {v \in {u} : table[v] # NoRow}, FALSE)
    /\ obs' = Disturb(obs)
    /\ UNCHANGED <<options, stats, first, users, count, now, hidden, manager, listeners,
                   login, logout, heartbeats, list>>

\* a request is in flight
InFlight ==
    \/ login.pc = "upsert"
    \/ stats.login = "insert"
    \/ stats.logout \in {"query", "update"}
    \/ \E who \in DOMAIN logout : logout[who].pc = "delete"
    \/ list.pc \in {"read", "delete"}
    \/ count.pc = "read"
    \/ \E who \in DOMAIN first : first[who].pc \in {"query", "update"}
    \/ \E f \in heartbeats : f.pc = "upsert"

\* a timer or a backoff wait is due
Due ==
    \/ manager.heartbeatTimer = now
    \/ manager.timeWarningTimer = now
    \/ manager.timeLimitTimer = now
    \/ login.pc = "sleep" /\ login.wake = now
    \/ \E f \in heartbeats : f.pc = "sleep" /\ f.wake = now

\* the clock moves on once everything due at this instant has run
advance(limit) ==
    /\ now < limit
    /\ ~InFlight
    /\ ~Due
    /\ now' = now + 1
    /\ obs' = [Disturb(obs) EXCEPT !.timeLeft = 0]
    /\ UNCHANGED <<options, stats, first, users, tabs, feed, count, hidden, manager, listeners,
                   table, login, logout, heartbeats, list>>

\* -------------------------------------------------------- specifications
\* the session controller: start, stop, heartbeat, watchdog, visibility
Next ==
    \/ \E username \in Usernames : userLogin(username, MaxLogins)
    \/ \E ok \in BOOLEAN : loginResponse(ok)
    \/ loginRetry
    \/ heartbeatTick
    \/ \E f \in heartbeats, ok \in BOOLEAN : heartbeatResponse(f, ok)
    \/ \E f \in heartbeats : heartbeatRetry(f)
    \/ userLogout
    \/ \E who \in DOMAIN logout, ok \in BOOLEAN : logoutResponse(who, ok)
    \/ timeWarning
    \/ timeLimit
    \/ visibilityChange
    \/ advance(MaxTime)

Spec == Init /\ [][Next]_vars

\* start() against a backend that may fail, under several retry settings
NextRetry ==
    \/ \E username \in Usernames : userLogin(username, MaxLogins)
    \/ \E ok \in BOOLEAN : loginResponse(ok)
    \/ loginRetry
    \/ advance(MaxRetryTime)

SpecRetry == InitRetry /\ [][NextRetry]_vars

\* the presence table, its readers and its writers
NextList ==
    \/ \E username \in Users : userLogin(username, MaxListLogins)
    \/ \E ok \in BOOLEAN : loginResponse(ok)
    \/ loginRetry
    \/ getOnlineUsers
    \/ \E ok \in BOOLEAN : listRead(ok)
    \/ \E ok \in BOOLEAN : listDelete(ok)
    \/ \E u \in Users : otherClientWrite(u)
    \/ advance(MaxListTime)

SpecList == InitList /\ [][NextList]_vars

\* one controller's heartbeat over many intervals
NextBeat ==
    \/ userLogin("alice", MaxBeatLogins)
    \/ \E ok \in BOOLEAN : loginResponse(ok)
    \/ loginRetry
    \/ heartbeatTick
    \/ \E f \in heartbeats, ok \in BOOLEAN : heartbeatResponse(f, ok)
    \/ \E f \in heartbeats : heartbeatRetry(f)
    \/ userLogout
    \/ \E who \in DOMAIN logout, ok \in BOOLEAN : logoutResponse(who, ok)
    \/ visibilityChange
    \/ advance(MaxBeatTime)

SpecBeat == InitBeat /\ [][NextBeat]_vars

\* the two presence reads against a table other clients write
NextCount ==
    \/ getOnlineUsers
    \/ \E ok \in BOOLEAN : listRead(ok)
    \/ \E ok \in BOOLEAN : listDelete(ok)
    \/ getOnlineUserCount
    \/ \E ok \in BOOLEAN : countResponse(ok)
    \/ \E u \in Users : otherClientWrite(u)
    \/ advance(MaxCountTime)

SpecCount == InitList /\ [][NextCount]_vars

\* the change feed of the table while sessions start and stop
NextFeed ==
    \/ \E username \in Users : userLogin(username, MaxFeedLogins)
    \/ \E ok \in BOOLEAN : loginResponse(ok)
    \/ loginRetry
    \/ userLogout
    \/ \E who \in DOMAIN logout, ok \in BOOLEAN : logoutResponse(who, ok)
    \/ \E u \in Users : otherClientWrite(u)
    \/ \E u \in Users : insertEvent(u)
    \/ advance(MaxFeedTime)

SpecFeed == InitList /\ [][NextFeed]_vars

\* the DELETE events of the change feed
NextLeave ==
    \/ userLogin("alice", MaxLeaveLogins)
    \/ \E ok \in BOOLEAN : loginResponse(ok)
    \/ loginRetry
    \/ userLogout
    \/ \E who \in DOMAIN logout, ok \in BOOLEAN : logoutResponse(who, ok)
    \/ \E u \in Users : otherClientWrite(u)
    \/ \E u \in Users : otherClientDelete(u)
    \/ \E e \in feed.deletes : deleteEvent(e)
    \/ advance(MaxLeaveTime)

SpecLeave == InitLeave /\ [][NextLeave]_vars

\* the heartbeat of one session under backend failures
NextOverlap ==
    \/ userLogin("alice", MaxOverlapLogins)
    \/ \E ok \in BOOLEAN : loginResponse(ok)
    \/ loginRetry
    \/ heartbeatTick
    \/ \E f \in heartbeats, ok \in BOOLEAN : heartbeatResponse(f, ok)
    \/ \E f \in heartbeats : heartbeatRetry(f)
    \/ advance(MaxOverlapTime)

SpecOverlap == InitOverlap /\ [][NextOverlap]_vars

\* no call of login() or logout() is in progress
Sequential ==
    /\ stats.login \notin {"userLogin", "insert"}
    /\ stats.logout \notin {"query", "update"}
    /\ logout["caller"].pc # "delete"

\* login() and logout() of init.js with the session history enabled, called
\* one after the other; login() is called on a controller without an identity
NextStats ==
    \/ /\ Sequential
       /\ manager.currentUsername = NULL
       /\ convenienceLogin("alice", MaxStatsLogins)
    \/ \E ok \in BOOLEAN : loginResponse(ok)
    \/ loginRetry
    \/ recordLogin
    \/ \E ok \in BOOLEAN : recordLoginResponse(ok)
    \/ Sequential /\ convenienceLogout
    \/ \E ok \in BOOLEAN : recordLogoutQuery(ok)
    \/ \E ok \in BOOLEAN : recordLogoutUpdate(ok)
    \/ \E who \in DOMAIN logout, ok \in BOOLEAN : logoutResponse(who, ok)
    \/ timeWarning
    \/ timeLimit
    \/ advance(MaxStatsTime)

SpecStats == InitStats /\ [][NextStats]_vars

\* the subscription over several sessions of one controller
NextRelay ==
    \/ userLogin("alice", MaxRelayLogins)
    \/ \E ok \in BOOLEAN : loginResponse(ok)
    \/ loginRetry
    \/ userLogout
    \/ \E who \in DOMAIN logout, ok \in BOOLEAN : logoutResponse(who, ok)
    \/ channelError
    \/ destroy
    \/ advance(MaxRelayTime)

SpecRelay == InitList /\ [][NextRelay]_vars

\* sessions of the same users in this tab and in another one
NextTabs ==
    \/ \E username \in Users : userLogin(username, MaxTabsLogins)
    \/ \E ok \in BOOLEAN : loginResponse(ok)
    \/ loginRetry
    \/ userLogout
    \/ \E who \in DOMAIN logout, ok \in BOOLEAN : logoutResponse(who, ok)
    \/ \E u \in Users : otherTabLogin(u)
    \/ \E u \in Users : otherTabHeartbeat(u)
    \/ \E u \in Users : otherTabLogout(u)
    \/ advance(MaxTabsTime)

SpecTabs == InitList /\ [][NextTabs]_vars

\* userLogin with first-login tracking, in this tab and in another one
NextFirst ==
    \/ \E username \in Users : userLogin(username, MaxFirstLogins)
    \/ \E who \in DOMAIN first, ok \in BOOLEAN : firstQueryResponse(who, ok)
    \/ \E who \in DOMAIN first, ok \in BOOLEAN : firstUpdateResponse(who, ok)
    \/ \E ok \in BOOLEAN : loginResponse(ok)
    \/ loginRetry
    \/ \E u \in Users : otherFirstLogin(u)
    \/ advance(MaxFirstTime)

SpecFirst == InitFirst /\ [][NextFirst]_vars

\* sessions of a controller that is destroyed
NextDestroy ==
    \/ userLogin("alice", MaxDestroyLogins)
    \/ \E ok \in BOOLEAN : loginResponse(ok)
    \/ loginRetry
    \/ heartbeatTick
    \/ \E f \in heartbeats, ok \in BOOLEAN : heartbeatResponse(f, ok)
    \/ \E f \in heartbeats : heartbeatRetry(f)
    \/ userLogout
    \/ \E who \in DOMAIN logout, ok \in BOOLEAN : logoutResponse(who, ok)
    \/ timeWarning
    \/ timeLimit
    \/ visibilityChange
    \/ destroy
    \/ advance(MaxDestroyTime)

SpecDestroy == Init /\ [][NextDestroy]_vars

\* ======================================================= the claims

\* the controller has no active identity
Idle == manager.currentUsername = NULL

\* a step in which a heartbeat callback issues a presence write
HeartbeatWriteIssued == \E f \in heartbeats' : f.pc = "upsert" /\ f \notin heartbeats

\* C1: userLogin("") and userLogin(null) fail with InvalidInput; the call issues no
\* backend request and changes neither the identity, the timers, the hooks, the
\* subscription nor anything at the backend.
C1_InvalidStartRejected ==
    [][\A username \in {"", NULL} :
          userLogin(username, MaxLogins) =>
              /\ login'.pc = "InvalidInput"
              /\ login'.attempts = 0
              /\ UNCHANGED <<manager, listeners, hidden, table, logout, heartbeats, list>>]_vars

\* an empty name was refused while a session was running, and the session is as it was
C1_Witness ==
    /\ login.pc = "InvalidInput"
    /\ manager.currentUsername = "alice"
    /\ manager.heartbeatTimer # NoTimer
    /\ manager.timeLimitTimer # NoTimer

\* C3: when userLogout() on an Active controller (identity set, heartbeat running,
\* no userLogin under way) returns, it has not raised, the heartbeat timer and both
\* watchdog timers are cleared and the identity is null, also when the backend
\* delete failed.
C3_StopNeverRaises ==
    [][(/\ logout["caller"].pc = "delete"
        /\ logout'["caller"].pc # "delete"
        /\ manager.currentUsername # NULL
        /\ manager.heartbeatTimer # NoTimer
        /\ login.pc \notin {"upsert", "sleep"}) =>
          /\ logout'["caller"].pc = "ok"
          /\ manager'.heartbeatTimer = NoTimer
          /\ manager'.timeLimitTimer = NoTimer
          /\ manager'.timeWarningTimer = NoTimer
          /\ manager'.currentUsername = NULL]_vars

\* C4: once userLogout() has completed for a user (and no userLogin was under way),
\* that user's presence row is absent until a later userLogin of the user or a
\* write by another client.
C4_RowAbsentAfterStop == obs.stopped # NULL => table[obs.stopped] = NoRow

\* C5: userLogout() with no active identity issues no backend request, does not
\* raise, and leaves the controller without identity and without heartbeat timer;
\* the backend and the registered hooks are untouched.
C5_IdleStopIsNoop ==
    [][(Idle /\ userLogout) =>
          /\ logout'["caller"] = [pc |-> "ok", user |-> NULL, calls |-> 0]
          /\ manager'.currentUsername = NULL
          /\ manager'.heartbeatTimer = NoTimer
          /\ manager'.realtimeChannel = manager.realtimeChannel
          /\ UNCHANGED <<listeners, table, login, heartbeats, list>>]_vars

\* userLogout() returned without a backend call, after an earlier session had ended
C5_Witness ==
    /\ logout["caller"].pc = "ok"
    /\ logout["caller"].calls = 0
    /\ Idle
    /\ listeners # {}

\* C7: when userLogin has failed with BackendUnavailable, the controller is Idle:
\* no identity, no heartbeat timer, no hooks, no subscription, no watchdog.
C7_FailedStartLeavesIdle ==
    login.pc = "BackendUnavailable" =>
        /\ manager.currentUsername = NULL
        /\ manager.heartbeatTimer = NoTimer
        /\ listeners = {}
        /\ ~manager.realtimeChannel
        /\ manager.timeLimitTimer = NoTimer
        /\ manager.timeWarningTimer = NoTimer

\* C6: a userLogin whose presence write failed on every attempt has made exactly
\* maxRetries + 1 attempts, has waited retryDelay * 2^k after failed attempt k
\* (k = 0 .. maxRetries - 1), and has failed at the instant of its last attempt.
C6_RetryAttemptsAndBackoff ==
    login.pc = "BackendUnavailable" =>
        /\ login.attempts = options.maxRetries + 1
        /\ login.delays = [k \in 1..options.maxRetries |-> options.retryDelay * Pow2(k - 1)]
        /\ login.elapsed = options.retryDelay * (Pow2(options.maxRetries) - 1)

\* a start has failed under maxRetries = 3, after waits of 2, 4 and 8
C6_Witness ==
    /\ login.pc = "BackendUnavailable"
    /\ options.maxRetries = 3
    /\ login.delays = <<2, 4, 8>>

\* C2: a getOnlineUsers() issued right after userLogin(i) has succeeded, whose read
\* the backend answers, returns an entry for i whose lastActivity is the time
\* of the write userLogin made (an entry of list.active is younger than
\* inactiveTimeout at the read, which C10 states).
C2_StartThenListContains ==
    (list.pc = "returned" /\ list.after # None /\ list.readOk) =>
        [username |-> list.after.user, lastActivity |-> list.after.stamp] \in list.active

\* the list was read right after a start, next to a stale row of another user
C2_Witness ==
    /\ list.pc = "returned"
    /\ list.after # None
    /\ list.readOk
    /\ list.deleted

\* C10: getOnlineUsers() returns exactly the rows it read that are younger than
\* inactiveTimeout and sends the names of all other rows it read in one delete,
\* after which those rows are gone and no other row is touched; a second call
\* right after one whose delete was applied returns the same users and issues
\* no delete.
C10_ListPartitionsAndCleans ==
    /\ [][(list.pc = "read" /\ list'.pc # "read" /\ list'.readOk) =>
             /\ list'.rows = {[username |-> u, last_activity |-> table[u]] :
                                 u \in {x \in Users : table[x] # NoRow}}
             /\ list'.active =
                    {[username |-> r.username, lastActivity |-> r.last_activity] :
                        r \in {x \in list'.rows :
                                  now - x.last_activity < options.inactiveTimeout}}
             /\ list'.expired =
                    {r.username :
                        r \in {x \in list'.rows :
                                  now - x.last_activity >= options.inactiveTimeout}}
             /\ (list'.pc = "delete") = (list'.expired # {})]_vars
    /\ [][(list.pc = "delete" /\ list'.pc = "returned" /\ list'.deleteOk) =>
             /\ list'.active = list.active
             /\ \A u \in Users :
                    table'[u] = IF u \in list.expired THEN NoRow ELSE table[u]]_vars
    /\ []((list.pc = "returned" /\ list.again /\ list.readOk) =>
             /\ list.active = list.prev
             /\ ~list.deleted)

\* a second call right after one that returned users and deleted stale rows
C10_Witness ==
    /\ list.pc = "returned"
    /\ list.again
    /\ list.readOk
    /\ list.prevDeleted
    /\ list.prev # {}

\* C8: while the heartbeat has run since a successful userLogin without pause,
\* stop or failed write, the heartbeat callbacks have issued one presence write
\* per elapsed heartbeatInterval (the one due at this instant may not have run
\* yet); and with the timer cleared and no retry pending none is issued.
C8_OneWritePerInterval ==
    /\ [](obs.steady =>
             obs.hbWrites =
                 IF manager.heartbeatTimer = now
                 THEN (now - obs.hbStart) \div options.heartbeatInterval - 1
                 ELSE (now - obs.hbStart) \div options.heartbeatInterval)
    /\ [][(manager.heartbeatTimer = NoTimer /\ \A f \in heartbeats : f.pc # "sleep") =>
             ~HeartbeatWriteIssued]_vars

\* three intervals have elapsed in a steady session, with three writes
C8_Witness ==
    /\ obs.steady
    /\ obs.hbWrites = 3
    /\ now - obs.hbStart = 3 * options.heartbeatInterval

\* C9: the fifth consecutive failed heartbeat clears the timer and reports the
\* heartbeat stop through onError once; from then on (until another userLogin)
\* no heartbeat callback issues a presence write and no second stop is reported.
C9_FatalStopIsFinal ==
    [][/\ (~obs.fatal /\ obs'.fatal) =>
             (manager'.heartbeatTimer = NoTimer /\ obs'.hbStopErrors = 1)
       /\ (obs.fatal /\ obs'.fatal) =>
             (~HeartbeatWriteIssued /\ obs'.hbStopErrors = 1)]_vars

\* C11: a row whose last write is inactiveTimeout or more old when getOnlineUsers()
\* reads it (its owner called userLogin and has written nothing since) is not
\* returned and is among the names sent to the batch delete; once the backend
\* has applied that delete the row is gone.
C11_CrashedSessionExpires ==
    [][\A u \in Users :
          /\ (/\ list.pc = "read"
              /\ list'.pc # "read"
              /\ list'.readOk
              /\ table[u] # NoRow
              /\ now - table[u] >= options.inactiveTimeout) =>
                 /\ list'.pc = "delete"
                 /\ u \in list'.expired
                 /\ \A e \in list'.active : e.username # u
          /\ (/\ list.pc = "delete"
              /\ list'.pc = "returned"
              /\ list'.deleteOk
              /\ u \in list.expired) =>
                 /\ table'[u] = NoRow
                 /\ \A e \in list'.active : e.username # u]_vars

\* alice called userLogin at 0 and wrote nothing more; the list read at
\* inactiveTimeout or later has dropped her and her row is gone
C11_Witness ==
    /\ manager.currentUsername = "alice"
    /\ manager.heartbeatTimer # NoTimer
    /\ now >= options.inactiveTimeout
    /\ list.pc = "returned"
    /\ list.deleteOk
    /\ "alice" \in list.expired
    /\ list.active = {}
    /\ table["alice"] = NoRow

\* C12: a getOnlineUsers() whose read failed has returned the empty list and a
\* getOnlineUserCount() whose read failed has returned 0, whatever the table
\* holds; both calls end by returning.
C12_ReadsDegradeToEmpty ==
    /\ (list.pc \notin {"idle", "read", "delete"}) => list.pc = "returned"
    /\ (count.pc \notin {"idle", "read"}) => count.pc = "returned"
    /\ (list.pc = "returned" /\ ~list.readOk) => (list.active = {} /\ ~list.deleted)
    /\ (count.pc = "returned" /\ ~count.readOk) => count.result = 0

\* both reads failed while the table held a fresh row
C12_Witness ==
    /\ list.pc = "returned"
    /\ ~list.readOk
    /\ count.pc = "returned"
    /\ ~count.readOk
    /\ count.fresh > 0

\* C13: the INSERT handler has called onUserJoin exactly once, with the username
\* and the last_activity of the event, when the event's username differed from
\* currentUsername at the delivery, and has not called it when they were equal.
C13_JoinOnlyForOthers ==
    feed.event # NoEvent =>
        feed.joins =
            IF feed.event.username # feed.local
            THEN <<[username |-> feed.event.username,
                    lastActivity |-> feed.event.last_activity]>>
            ELSE <<>>

\* alice's controller has been told that bob joined; alice's own row exists too
C13_Witness ==
    /\ manager.currentUsername = "alice"
    /\ table["alice"] # NoRow
    /\ feed.local = "alice"
    /\ feed.event.username = "bob"
    /\ Len(feed.joins) = 1

\* C14: when the warning timer fires, warningTime after the session started, it
\* passes onTimeWarning the remaining time maxOnlineTime - warningTime.
C14_WarningPassesRemainingTime ==
    [][(manager.timeWarningTimer = now /\ manager'.timeWarningTimer = Fired) =>
          obs'.timeLeft = options.maxOnlineTime - options.warningTime]_vars

C16_OnlineTimeQueries ==
    IF obs.started # NoTime /\ manager.currentUsername # NULL
    THEN /\ getCurrentOnlineTime(manager, now) = now - obs.started
         /\ getRemainingTime(manager, now) =
                IF options.maxOnlineTime - (now - obs.started) > 0
                THEN options.maxOnlineTime - (now - obs.started)
                ELSE 0
    ELSE /\ getCurrentOnlineTime(manager, now) = 0
         /\ getRemainingTime(manager, now) = NoTime

\* C17: when userLogout() of an Active controller completes while another tab
\* has an active session of the same user, the user still has a presence row.
C17_RowKeptWhileAnotherTabActive ==
    [][(/\ logout["caller"].pc = "delete"
        /\ logout'["caller"].pc = "ok"
        /\ manager.heartbeatTimer # NoTimer
        /\ login.pc \notin {"upsert", "sleep"}
        /\ logout["caller"].user \in tabs) =>
          table'[logout["caller"].user] # NoRow]_vars

\* C18: for a user whose has_logged_in was false at first and whose reads and
\* updates of it the backend has all carried out, at most one userLogin, of any
\* controller, has been given isFirstLogin = true by markUserLoggedIn.
C18_AtMostOneFirstLogin ==
    \A u \in Users : ~users[u].failed => users[u].firsts <= 1

\* C19: whatever heartbeat writes have failed, a started session with an identity
\* on a visible page has its heartbeat timer armed, so that a presence write is
\* issued at the next interval without any call.
C19_HeartbeatSurvivesOutage ==
    (/\ login.pc = "ok"
     /\ manager.currentUsername # NULL
     /\ ~hidden
     /\ \A who \in DOMAIN logout : logout[who].pc # "delete") =>
        manager.heartbeatTimer # NoTimer

\* C20: once destroy() has run (with no userLogin in progress and until the next
\* userLogin), the heartbeat timer is null, the limit and warning timers are not
\* armed, the channel is removed and no handler pair is registered; and no step
\* of the controller issues a heartbeat write, retries of earlier ticks aside.
C20_DestroyReleasesEverything ==
    /\ [](obs.destroyed =>
             /\ manager.heartbeatTimer = NoTimer
             /\ manager.timeLimitTimer \in {NoTimer, Fired}
             /\ manager.timeWarningTimer \in {NoTimer, Fired}
             /\ ~manager.realtimeChannel
             /\ listeners = {})
    /\ [][(/\ obs.destroyed
           /\ obs'.destroyed
           /\ \A f \in heartbeats : f.pc # "sleep") => ~HeartbeatWriteIssued]_vars

\* C21: the retry wrapper calls the error callback exactly when all
\* maxRetries + 1 attempts failed, once, with the error of the last attempt,
\* and raises that same error; a call that succeeded made no attempt after the
\* successful one, raised nothing and called no error callback; no callback is
\* made while attempts remain.
C21_ErrorCallbackOnlyAfterLastAttempt ==
    /\ login.pc = "BackendUnavailable" =>
          /\ login.attempts = options.maxRetries + 1
          /\ login.reported = <<options.maxRetries>>
          /\ login.thrown = options.maxRetries
    /\ login.pc = "ok" =>
          /\ login.attempts = Len(login.delays) + 1
          /\ login.reported = <<>>
          /\ login.thrown = NoError
    /\ login.pc \in {"upsert", "sleep"} =>
          /\ login.reported = <<>>
          /\ login.thrown = NoError
C21_Witness ==
    /\ login.pc = "BackendUnavailable"
    /\ options.maxRetries = 2
    /\ login.attempts = 3
    /\ login.reported = <<2>>

\* C22: the step in which the heartbeat gives up after its fifth consecutive
\* failure stops the heartbeat timer and counts the failure, and changes
\* nothing else: the identity, the watchdog timers, the session start and
\* the subscription handle are as before, the presence table is untouched
\* and no delete is issued.
C22_FatalStopStep ==
    /\ manager'.retryCount > manager.retryCount
    /\ manager'.retryCount >= HeartbeatFailureLimit
C22_FatalStopKeepsSession ==
    [][C22_FatalStopStep =>
          /\ manager' = [manager EXCEPT !.heartbeatTimer = NoTimer,
                                        !.intervals = 0,
                                        !.retryCount = @ + 1]
          /\ UNCHANGED <<table, logout, listeners, login>>]_vars
C22_Witness ==
    /\ obs.fatal
    /\ manager.heartbeatTimer = NoTimer
    /\ manager.currentUsername = "alice"
    /\ manager.timeLimitTimer >= 0
    /\ manager.timeWarningTimer >= 0
    /\ manager.realtimeChannel
    /\ table["alice"] # NoRow
    /\ \A who \in DOMAIN logout : logout[who].pc = "idle"

\* C23: once the page hooks are registered, a background visibility event
\* stops the heartbeat timer and keeps the rest of the controller's state; a
\* foreground event of a controller with an identity arms the timer one
\* heartbeatInterval ahead, and of an Idle controller changes nothing; a
\* visibility event touches neither the presence table, the hooks nor any
\* call in flight; and while the page is in the background with the timer
\* stopped and no earlier tick still retrying, no presence write is issued.
C23_VisibilityStep == hidden' # hidden
C24_WarningFires == manager.timeWarningTimer # Fired /\ manager'.timeWarningTimer = Fired
C24_LimitFires == manager.timeLimitTimer # Fired /\ manager'.timeLimitTimer = Fired
C24_TimersFireAfterTheirDelay ==
    [][/\ C24_WarningFires => now = obs.started + options.warningTime
       /\ C24_LimitFires => now = obs.started + options.maxOnlineTime]_vars
C24_Witness ==
    /\ manager.timeWarningTimer = Fired
    /\ manager.timeLimitTimer = Fired
    /\ obs.started # NoTime
    /\ now = obs.started + options.maxOnlineTime
    /\ options.warningTime # options.maxOnlineTime - options.warningTime
\* C24 as stated: the warning timer fires warningTime before the limit, when
\* maxOnlineTime - warningTime has elapsed since the session was started.
C24_WarningBeforeLimit ==
    [][C24_WarningFires =>
          now = obs.started + options.maxOnlineTime - options.warningTime]_vars

C26_StateClearedAfterStop ==
    obs.stopped # NULL =>
        /\ manager.currentUsername = Constructed.currentUsername
        /\ manager.heartbeatTimer = Constructed.heartbeatTimer
        /\ manager.retryCount = Constructed.retryCount
        /\ manager.loginTime = Constructed.loginTime
        /\ manager.timeWarningTimer = Constructed.timeWarningTimer
        /\ manager.timeLimitTimer = Constructed.timeLimitTimer
        /\ manager.realtimeChannel = Constructed.realtimeChannel

\* C27: when the read of the identity table made by start() fails, start() is
\* given isFirstLogin = false and goes on to issue its presence upsert; when
\* the conditional write has been answered, whether it failed or not, start()
\* goes on to issue its presence upsert; a start() whose upsert succeeds has
\* written the row and armed the heartbeat; and with tracking disabled start()
\* makes no call to the identity table and its isFirstLogin stays false.
C27_FirstLoginFailureSwallowed ==
    [][/\ (/\ first["self"].pc = "query"
           /\ first'["self"].pc = "done"
           /\ ~users[first["self"].user].has_logged_in) =>
              /\ ~first'["self"].isFirstLogin
              /\ login'.pc = "upsert"
              /\ login'.user = first["self"].user
       /\ (first["self"].pc = "update" /\ first'["self"].pc = "done") =>
              /\ first'["self"].isFirstLogin
              /\ login'.pc = "upsert"
              /\ login'.user = first["self"].user
       /\ (login.pc = "upsert" /\ login'.pc = "ok") =>
              /\ table'[login.user] = login.stamp
              /\ manager'.heartbeatTimer = now + options.heartbeatInterval
       /\ ~options.enableFirstLoginTracking =>
              /\ first'["self"] = IdleFirst
              /\ login'.pc # "first"]_vars
C27_Witness ==
    /\ options.enableFirstLoginTracking
    /\ login.pc = "ok"
    /\ first["self"].pc = "done"
    /\ first["self"].user = "alice"
    /\ ~first["self"].isFirstLogin
    /\ ~users["alice"].has_logged_in
    /\ users["alice"].firsts = 0
    /\ table["alice"] # NoRow
    /\ manager.heartbeatTimer # NoTimer

\* C28: the DELETE handler has called onUserLeave once, with the username of
\* the event, when that username differed from the controller's identity and
\* the row was not deleted by the controller's own stop(); it has not called
\* it for the controller's identity nor for the delete of its own stop().
C28_LeaveOnlyForOthers ==
    feed.old # NoDelete =>
        feed.leaves =
            IF feed.old.own \/ feed.old.username = feed.oldLocal
            THEN <<>>
            ELSE <<[username |-> feed.old.username]>>

\* C29: the controller has at most one channel open at the backend, and has
\* one exactly when it holds a handle; a start() that completes while a handle
\* is held opens no channel and keeps the handle; whenever the handle is
\* cleared the channel has been removed; a CHANNEL_ERROR is reported to the
\* error callback once and changes neither the handle nor the channels; and
\* after it no channel is opened while the handle is held.
C29_OneSubscription ==
    /\ [](/\ feed.channels <= 1
          /\ manager.realtimeChannel <=> feed.channels = 1
          /\ feed.status = "CHANNEL_ERROR" => feed.errors = <<"realtime">>
          /\ feed.status # "CHANNEL_ERROR" => feed.errors = <<>>)
    /\ [][/\ (manager.realtimeChannel /\ login.pc = "upsert" /\ login'.pc = "ok") =>
                 /\ feed'.channels = feed.channels
                 /\ manager'.realtimeChannel
          /\ (manager.realtimeChannel /\ ~manager'.realtimeChannel) =>
                  feed'.channels = 0 /\ feed'.status = "CLOSED"
          /\ (feed.status # "CHANNEL_ERROR" /\ feed'.status = "CHANNEL_ERROR") =>
                 /\ manager' = manager
                 /\ feed'.channels = feed.channels
          /\ (feed.status = "CHANNEL_ERROR" /\ manager.realtimeChannel) =>
                  feed'.channels <= feed.channels]_vars
C29_Witness ==
    /\ manager.realtimeChannel
    /\ feed.channels = 1
    /\ feed.status = "CHANNEL_ERROR"
    /\ Cardinality(listeners) >= 2
    /\ login.pc = "ok"

\* C30: a heartbeat tick of a controller with an identity starts its own
\* presence write whatever writes of earlier ticks are still in flight or
\* waiting to be retried, so that two heartbeat writes of the controller can
\* be in flight together.
C30_TickStep ==
    /\ manager.heartbeatTimer = now
    /\ manager'.heartbeatTimer = now + options.heartbeatInterval
    /\ login' = login
C30_TickIgnoresWritesInFlight ==
    [][(C30_TickStep /\ manager.currentUsername # NULL) =>
          \E f \in heartbeats' :
              /\ f \notin heartbeats
              /\ f.pc = "upsert"
              /\ f.attempt = 0
              /\ f.user = manager.currentUsername
              /\ heartbeats' = heartbeats \cup {f}]_vars
C30_Witness ==
    \E f, g \in heartbeats :
        /\ f # g
        /\ f.pc = "upsert"
        /\ g.pc = "upsert"
        /\ f.user = "alice"
        /\ g.user = "alice"
        /\ f.attempt = 0
        /\ g.attempt > 0

\* C31: a heartbeat write that is in flight is applied by the backend when it
\* is answered with success, whether or not stop() has cleared the identity in
\* the meantime; so the presence row of an identity can exist again after its
\* stop() has completed.
C31_LateWriteApplied ==
    [][\A f \in heartbeats :
          (/\ f.pc = "upsert"
           /\ heartbeats' = heartbeats \ {f}
           /\ manager'.retryCount = 0
           /\ manager'.retryCount <= manager.retryCount
           /\ login' = login
           /\ logout' = logout) =>
              table' = [table EXCEPT ![f.user] = f.stamp]]_vars
C31_Witness ==
    /\ obs.stopped = "alice"
    /\ manager.currentUsername = NULL
    /\ manager.heartbeatTimer = NoTimer
    /\ logout["caller"].pc = "ok"
    /\ table["alice"] # NoRow

\* C32: the session history never holds more than one open record (a record
\* without logout_time) of an identity.
C32_AtMostOneOpenRecord == \A u \in Users : stats.open[u] <= 1

\* C33: login() raises an error only when userLogin has not started a
\* presence session, and a logout() that has returned or raised has gone
\* through userLogout, so that a failure of the session history never keeps
\* the presence session from ending.
C33_HistoryFailureHarmless ==
    /\ stats.login = "threw" => login.pc # "ok"
    /\ stats.logout = "threw" => stats.logoutUser # manager.currentUsername

\* C34: when userLogin(i) returns successfully, currentUsername is i and the
\* heartbeat timer is armed, whatever other calls ran while it was awaiting.
C34_StartResolvesActive ==
    [][(login.pc = "upsert" /\ login'.pc = "ok") =>
          /\ manager'.currentUsername = login.user
          /\ manager'.heartbeatTimer # NoTimer]_vars

\* C35: the batch delete of getOnlineUsers removes no row that is fresh at the
\* moment the delete is applied.
C35_DeleteSparesFreshRows ==
    [][(list.pc = "delete" /\ list'.pc = "returned") =>
          \A u \in Users :
              (table[u] # NoRow /\ IsActive(now - table[u])) => table'[u] = table[u]]_vars

\* C36: every presence upsert of the controller that is in flight, of start()
\* and of the heartbeat with its retries, carries a username that is neither
\* null nor empty.
C36_NoNullIdentityWritten ==
    /\ login.pc = "upsert" => login.user \in Users
    /\ \A f \in heartbeats : f.pc = "upsert" => f.user \in Users

\* C37: at most one interval timer of the heartbeat is running, it is the one
\* the heartbeat timer handle points to, and the handle is set only while
\* currentUsername is set.
C37_OneTimerOnlyWithIdentity ==
    /\ manager.intervals <= 1
    /\ manager.intervals = 1 <=> manager.heartbeatTimer # NoTimer
    /\ manager.heartbeatTimer # NoTimer => manager.currentUsername # NULL
C37_Witness ==
    /\ manager.heartbeatTimer # NoTimer
    /\ manager.intervals = 1
    /\ manager.currentUsername = "alice"
    /\ Cardinality(listeners) >= 2
    /\ now > options.heartbeatInterval

\* C38: a getOnlineUserCount() answered on the rows, and at the instant, on
\* which a getOnlineUsers() has just computed its list returns the number of
\* entries of that list, and leaves the table as it is.
C38_CountEqualsListLength ==
    [][(/\ count.pc = "read"
        /\ count'.pc = "returned"
        /\ count'.readOk
        /\ list.pc = "delete"
        /\ list.rows = SelectRows(table)
        /\ count.cutoff = now - options.inactiveTimeout) =>
          /\ count'.result = Cardinality(list.active)
          /\ table' = table]_vars
====
